---- MODULE Spec2Model ----
(***************************************************************************)
(* A model of the vendor tool (vendor.go): the dependency walk `vendor`,   *)
(* the classifier (isVendored, isLocal), the copy step (copyPackage,       *)
(* copyFile), the skip report (noteExtVendoredDep, reportExtVendoredDep)   *)
(* and the manifest (noteManifest, reportManifest, commitHash).            *)
(*                                                                         *)
(* Strings that the code inspects character by character (import paths,   *)
(* directories) are sequences of one-character strings, so that            *)
(* strings.Contains, strings.HasPrefix and sort.Strings are computed as    *)
(* the Go library computes them.                                           *)
(***************************************************************************)
EXTENDS Integers, Sequences, FiniteSets, TLC

(* ------------------------------ bounds --------------------------------- *)

\* Longest list of root names given on the command line.
MaxRoots == 2

\* Longest list of root names in the behaviours that run the tool twice.
MaxRootsTwice == 1

\* Most environment failures (resolver, package error, copy, stat, revision,
\* log file, getwd) injected over one behaviour.
MaxFaults == 1

(* --------------------------- string library ---------------------------- *)

\* The characters used, in ascending byte order (ASCII).
Ascii == <<".", "/", "_", "a", "b", "c", "d", "e", "g", "l", "n", "o", "p",
           "q", "r", "s", "t", "v", "w">>

Code(ch) == CHOOSE i \in 1..Len(Ascii) : Ascii[i] = ch

\* strings.HasPrefix(s, prefix)
HasPrefix(s, prefix) ==
    /\ Len(prefix) <= Len(s)
    /\ SubSeq(s, 1, Len(prefix)) = prefix

\* strings.Contains(s, substr)
Contains(s, substr) ==
    \E i \in 0..(Len(s) - Len(substr)) : SubSeq(s, i + 1, i + Len(substr)) = substr

\* s < t in the byte-wise order of Go strings (the order sort.Strings uses)
StrLess(s, t) ==
    \/ /\ Len(s) < Len(t)
       /\ SubSeq(t, 1, Len(s)) = s
    \/ \E i \in 1..Len(s) :
          /\ i <= Len(t)
          /\ SubSeq(s, 1, i - 1) = SubSeq(t, 1, i - 1)
          /\ Code(s[i]) < Code(t[i])

RECURSIVE JoinSep(_, _)
\* strings.Join(parts, sep) / filepath.Join on clean components
JoinSep(parts, sep) ==
    IF Len(parts) = 0 THEN <<>>
    ELSE IF Len(parts) = 1 THEN parts[1]
    ELSE parts[1] \o sep \o JoinSep(Tail(parts), sep)

RECURSIVE SplitSep(_, _)
\* strings.Split(s, "/") for a one-character separator
SplitSep(s, sep) ==
    IF \A i \in 1..Len(s) : s[i] # sep THEN <<s>>
    ELSE LET k == CHOOSE i \in 1..Len(s) :
                      /\ s[i] = sep
                      /\ \A j \in 1..(i - 1) : s[j] # sep
         IN  <<SubSeq(s, 1, k - 1)>> \o SplitSep(SubSeq(s, k + 1, Len(s)), sep)

Slash == <<"/">>

S_vendor == <<"v", "e", "n", "d", "o", "r">>
S_vendortools == <<"v", "e", "n", "d", "o", "r", "t", "o", "o", "l", "s">>

(* ------------------------- the package universe ------------------------ *)
\* What `go list -json` can answer about: each package is named by its
\* import path (a TLA+ string, the key the Go maps use); PathOf gives the
\* same import path character by character, DirOf its directory.

Ids == {"p", "a", "b", "c", "os", "a/vendor/c", "pq", "pq/vendor/c",
        "p/vendor/c", "vendor/c", "a/vendor", "a/vendortools"}

PathOf(id) ==
    CASE id = "p"             -> <<"p">>
      [] id = "a"             -> <<"a">>
      [] id = "b"             -> <<"b">>
      [] id = "c"             -> <<"c">>
      [] id = "os"            -> <<"o", "s">>
      [] id = "a/vendor/c"    -> JoinSep(<< <<"a">>, S_vendor, <<"c">> >>, Slash)
      [] id = "pq"            -> <<"p", "q">>
      [] id = "pq/vendor/c"   -> JoinSep(<< <<"p", "q">>, S_vendor, <<"c">> >>, Slash)
      [] id = "p/vendor/c"    -> JoinSep(<< <<"p">>, S_vendor, <<"c">> >>, Slash)
      [] id = "vendor/c"      -> JoinSep(<< S_vendor, <<"c">> >>, Slash)
      [] id = "a/vendor"      -> JoinSep(<< <<"a">>, S_vendor >>, Slash)
      [] id = "a/vendortools" -> JoinSep(<< <<"a">>, S_vendortools >>, Slash)

\* Package.Standard
StandardOf(id) == id = "os"

\* Package.Dir: GOPATH/src is /w, GOROOT/src is /g
DirOf(id) ==
    IF StandardOf(id) THEN <<"/", "g", "/">> \o PathOf(id)
    ELSE <<"/", "w", "/">> \o PathOf(id)

\* The directory the tool is run in (what os.Getwd answers): the project p.
Cwd == <<"/", "w", "/", "p">>

\* Package.Imports: the packages a package imports directly.
ImportsOf(id) ==
    CASE id = "p"             -> {"a", "os"}
      [] id = "a"             -> {"b", "pq", "a/vendor/c"}
      [] id = "b"             -> {"c"}
      [] id = "a/vendortools" -> {"pq/vendor/c", "p/vendor/c", "vendor/c", "a/vendor"}
      [] OTHER                -> {}

RECURSIVE Closure(_, _)
Closure(frontier, acc) ==
    IF frontier \subseteq acc THEN acc
    ELSE Closure(UNION {ImportsOf(x) : x \in frontier}, acc \cup frontier)

RECURSIVE SortStrings(_)
\* sort.Strings over a set of import paths: ascending byte order
SortStrings(S) ==
    IF S = {} THEN <<>>
    ELSE LET m == CHOOSE x \in S : \A y \in S \ {x} : StrLess(PathOf(x), PathOf(y))
         IN  <<m>> \o SortStrings(S \ {m})

\* Package.Imports as go list prints it
Imports(id) == SortStrings(ImportsOf(id))

\* Package.Deps: "all (recursively) imported dependencies", sorted
DepsTable == [id \in Ids |-> SortStrings(Closure(ImportsOf(id), {}))]

\* Mutant of Deps: the direct imports only (p.Imports read for p.Deps).
Deps_DirectOnly(id) == Imports(id)

Deps(id) == DepsTable[id]

\* The names a user can give on the command line (flag.Args()).
RootNames == {"p", "a", "a/vendortools"}

\* The eleven source-file lists of a Package that copyPackage reads, and
\* TestGoFiles, which it does not read.
NoFiles ==
    [GoFiles |-> <<>>, CgoFiles |-> <<>>, IgnoredGoFiles |-> <<>>, CFiles |-> <<>>,
     CXXFiles |-> <<>>, MFiles |-> <<>>, HFiles |-> <<>>, SFiles |-> <<>>,
     SwigFiles |-> <<>>, SwigCXXFiles |-> <<>>, SysoFiles |-> <<>>,
     TestGoFiles |-> <<>>]

FilesOf(id) ==
    IF id = "a"
    THEN [NoFiles EXCEPT !.GoFiles = <<"a.go">>, !.CFiles = <<"a.c">>,
                         !.TestGoFiles = <<"a_test.go">>]
    ELSE [NoFiles EXCEPT !.GoFiles = <<"x.go">>]

\* The content of a source file, as a sequence of blocks.
SrcData(id, fname) ==
    IF fname = "a.go" THEN << <<id, fname, 1>>, <<id, fname, 2>> >>
    ELSE << <<id, fname, 1>> >>

\* What `git rev-parse HEAD` prints in a package's directory, and whether
\* `git diff-index --quiet HEAD` succeeds there.
HeadOf(id) == <<"rev", id>>
CleanOf(id) == id # "b"

(* ------------------------------ the state ------------------------------ *)

VARIABLES
    names,            \* flag.Args(): the root names
    phase,            \* where main is: start, walk, report, finalize, done, fatal
    stack,            \* the activations of vendor(): [ps, i, andDeps]
    cwd,              \* var cwd string ("" until getwd has run)
    extVendoredDeps,  \* var extVendoredDeps map[string]bool (its true keys)
    manifest,         \* var manifest map[string]*Package
    reported,         \* keys the loop of reportExtVendoredDep has passed
    stdout,           \* lines printed with fmt.Println
    stderr,           \* lines printed through log and os.Stderr
    dirs,             \* the directories vendor/<import path> that exist
    files,            \* the files under vendor/: <<import path, name>> -> content
    logfile,          \* the lines of the file named by -log
    faults,           \* environment failures so far
    calls,            \* steps of this run so far
    seen,             \* history: the descriptors visited, with the branch taken
    copies,           \* history: the calls of copyPackage, with their result
    listed,           \* history: the names of each call of listPackages, in order
    revFailed,        \* history: manifest keys whose commitHash failed
    ret,              \* history: what reportManifest returned
    oldlog,           \* history: the log file as this run found it
    trace,            \* history: this run's environment failures, by step
    run,              \* history: 1 in the first run of the tool, 2 in a second
    first             \* history: what the first run left behind

vars == <<names, phase, stack, cwd, extVendoredDeps, manifest, reported, stdout,
          stderr, dirs, files, logfile, faults, calls, seen, copies, revFailed,
          ret, oldlog, trace, run, first, listed>>

(* --------------------------- the classifier ---------------------------- *)

\* isVendored: strings.Contains(p.ImportPath, "/vendor/")
VendoredTable == [id \in Ids |-> Contains(PathOf(id), Slash \o S_vendor \o Slash)]

\* Mutant of isVendored: a substring match on "vendor".
isVendored_Substring(id) == Contains(PathOf(id), S_vendor)

isVendored(id) == VendoredTable[id]

\* isLocal: strings.HasPrefix(d.Dir, getwd())
LocalTable == [id \in Ids |-> HasPrefix(DirOf(id), Cwd)]

isLocal(id, wd) == IF wd = Cwd THEN LocalTable[id] ELSE HasPrefix(DirOf(id), wd)

\* Mutant of Classify: the test of p.Standard is missing.
Classify_NoStandard(d, wd) ==
    IF d.Error THEN "error"
    ELSE IF isVendored(d.pkg)
         THEN (IF isLocal(d.pkg, wd) THEN "vendored-local" ELSE "vendored-ext")
    ELSE IF isLocal(d.pkg, wd) THEN "local"
    ELSE "vendorable"

\* The branch the loop body of vendor() takes for descriptor d, in the order
\* of its tests.
Classify(d, wd) ==
    IF d.Error THEN "error"
    ELSE IF StandardOf(d.pkg) THEN "standard"
    ELSE IF isVendored(d.pkg)
         THEN (IF isLocal(d.pkg, wd) THEN "vendored-local" ELSE "vendored-ext")
    ELSE IF isLocal(d.pkg, wd) THEN "local"
    ELSE "vendorable"

(* ------------------------------ the resolver --------------------------- *)

\* listPackages(ns) when `go list -json` succeeds: one descriptor per name,
\* in order; errs are the positions whose descriptor carries an Error.
listPackages(ns, errs) ==
    [i \in 1..Len(ns) |-> [pkg |-> ns[i], Error |-> i \in errs]]

(* ------------------------------ the copy step -------------------------- *)

\* flatten(p.GoFiles, p.CgoFiles, ..., p.SysoFiles)
flatten(f) ==
    f.GoFiles \o f.CgoFiles \o f.IgnoredGoFiles \o f.CFiles \o f.CXXFiles \o
    f.MFiles \o f.HFiles \o f.SFiles \o f.SwigFiles \o f.SwigCXXFiles \o f.SysoFiles

\* The file system's answers to one copyFile: ok; os.Create fails ("create",
\* the destination is left as it was); os.Open or io.Copy fails ("io", the
\* destination was created or truncated and holds the first k blocks).
Ok == [kind |-> "ok", k |-> 0]

FileFailures(id, fname) ==
    {[kind |-> "create", k |-> 0]}
        \cup {[kind |-> "io", k |-> n] : n \in 0..(Len(SrcData(id, fname)) - 1)}

\* A file system with the file at key holding data.
WriteFile(fs, key, data) ==
    [x \in (DOMAIN fs) \cup {key} |-> IF x = key THEN data ELSE fs[x]]

\* Mutant of copyFile: the destination is opened for appending, not truncated.
copyFile_Append(fs, id, fname, how) ==
    LET key == <<id, fname>>
        old == IF key \in DOMAIN fs THEN fs[key] ELSE <<>>
    IN  CASE how.kind = "ok"     -> [files |-> WriteFile(fs, key, old \o SrcData(id, fname)),
                                     err |-> FALSE]
          [] how.kind = "create" -> [files |-> fs, err |-> TRUE]
          [] how.kind = "io"     -> [files |-> WriteFile(fs, key,
                                                        old \o SubSeq(SrcData(id, fname), 1, how.k)),
                                     err |-> TRUE]

\* copyFile(dstpath, srcpath): os.Create truncates, io.Copy fills
copyFile(fs, id, fname, how) ==
    CASE how.kind = "ok"     -> [files |-> WriteFile(fs, <<id, fname>>, SrcData(id, fname)),
                                 err |-> FALSE]
      [] how.kind = "create" -> [files |-> fs, err |-> TRUE]
      [] how.kind = "io"     -> [files |-> WriteFile(fs, <<id, fname>>,
                                                    SubSeq(SrcData(id, fname), 1, how.k)),
                                 err |-> TRUE]

\* Whether import path x is y or an ancestor directory of y.
IsPathPrefix(x, y) ==
    LET cx == SplitSep(PathOf(x), "/")
        cy == SplitSep(PathOf(y), "/")
    IN  /\ Len(cx) <= Len(cy)
        /\ SubSeq(cy, 1, Len(cx)) = cx

\* os.MkdirAll(filepath.Join("vendor", p.ImportPath), 0755)
AncestorTable == [id \in Ids |-> {x \in Ids : IsPathPrefix(x, id)}]

MkdirAll(ds, id) == ds \cup AncestorTable[id]

RECURSIVE copyLoop(_, _, _, _, _, _)
\* The loop of copyPackage over the flattened file list, from index i; the
\* file at index failAt fails as `how` says and ends the loop.
copyLoop(fs, id, fl, i, failAt, how) ==
    IF i > Len(fl) THEN [files |-> fs, err |-> FALSE]
    ELSE LET r == copyFile(fs, id, fl[i], IF i = failAt THEN how ELSE Ok)
         IN  IF r.err THEN r
             ELSE copyLoop(r.files, id, fl, i + 1, failAt, how)

\* copyPackage(p): failAt = 0 is a failure of MkdirAll, failAt in 1..n a
\* failure at the n-th file, failAt = n + 1 none.
copyPackage(ds, fs, id, failAt, how) ==
    IF failAt = 0 THEN [dirs |-> ds, files |-> fs, err |-> TRUE]
    ELSE LET r == copyLoop(fs, id, flatten(FilesOf(id)), 1, failAt, how)
         IN  [dirs |-> MkdirAll(ds, id), files |-> r.files, err |-> r.err]

\* The ways one copyPackage(p) can fail.
CopyFailures(id) ==
    {[failAt |-> 0, how |-> [kind |-> "mkdir", k |-> 0]]}
        \cup UNION {{[failAt |-> i, how |-> h] :
                        h \in FileFailures(id, flatten(FilesOf(id))[i])} :
                    i \in 1..Len(flatten(FilesOf(id)))}

\* A copyPackage(p) in which nothing fails.
CopyOk(id) == [failAt |-> Len(flatten(FilesOf(id))) + 1, how |-> Ok]

(* ------------------------- skip set and manifest ----------------------- *)

\* noteExtVendoredDep(p)
noteExtVendoredDep(ext, d) ==
    IF d.pkg \in ext THEN ext ELSE ext \cup {d.pkg}

\* noteManifest(p): manifest[p.ImportPath] = p
noteManifest(m, d) ==
    [x \in (DOMAIN m) \cup {d.pkg} |-> IF x = d.pkg THEN d ELSE m[x]]

\* isClean(dir)
isClean(id) == CleanOf(id)

\* commitHash(dir): fails says whether `git rev-parse HEAD` fails there
commitHash(id, fails) ==
    IF fails THEN [commit |-> <<"unknown">>, err |-> TRUE]
    ELSE [commit |-> HeadOf(id) \o (IF isClean(id) THEN <<>> ELSE <<" (dirty)">>),
          err |-> FALSE]

\* fmt.Fprintf(w, "%s\t%s\n", commit, imp)
LogLine(commit, imp) == <<commit, "\t", imp, "\n">>

\* Mutant of ManifestLines: an entry whose commitHash fails is skipped.
ManifestLines_SkipFailed(imps, failed) ==
    LET kept == SelectSeq(imps, LAMBDA x : x \notin failed)
    IN  [i \in 1..Len(kept) |-> LogLine(commitHash(kept[i], FALSE).commit, kept[i])]

\* The lines the loop of reportManifest writes for the sorted keys imps,
\* where commitHash fails for the keys in failed.
ManifestLines(imps, failed) ==
    [i \in 1..Len(imps) |-> LogLine(commitHash(imps[i], imps[i] \in failed).commit, imps[i])]

\* What that loop prints on os.Stderr.
RECURSIVE ManifestErrors(_, _)
ManifestErrors(imps, failed) ==
    IF imps = <<>> THEN <<>>
    ELSE (IF Head(imps) \in failed THEN << <<"commit hash", Head(imps)>> >> ELSE <<>>)
             \o ManifestErrors(Tail(imps), failed)

\* getwd(): the cached working directory, read once
getwd(c) == IF c = <<>> THEN Cwd ELSE c

(* ------------------------------ initial state -------------------------- *)

RootSeqs(max) == UNION {[1..n -> RootNames] : n \in 1..max}

\* The destination tree and the log before the tool runs: nothing, or what
\* an earlier vendoring left (a stale copy of a, a directory for a/vendor/c,
\* one line of log).
EmptyWorld == [dirs |-> {}, files |-> <<>>, log |-> <<>>]

OldWorld ==
    [dirs  |-> {"a", "a/vendor", "a/vendor/c"},
     files |-> WriteFile(WriteFile(<<>>, <<"a", "a.go">>, << <<"a", "a.go", 0>> >>),
                         <<"a", "gone.go">>, << <<"a", "gone.go", 0>> >>),
     log   |-> << LogLine(<<"rev0", "a">>, "a") >>]

Worlds == {EmptyWorld, OldWorld}

NoRun == [dirs |-> {}, files |-> <<>>, block |-> <<>>, trace |-> <<>>, ret |-> "none"]

Start(max) ==
    /\ names \in RootSeqs(max)
    /\ \E w \in Worlds :
          /\ dirs = w.dirs
          /\ files = w.files
          /\ logfile = w.log
          /\ oldlog = w.log
    /\ phase = "start"
    /\ stack = <<>>
    /\ cwd = <<>>
    /\ extVendoredDeps = {}
    /\ manifest = <<>>
    /\ reported = {}
    /\ stdout = <<>>
    /\ stderr = <<>>
    /\ faults = 0
    /\ calls = 0
    /\ seen = {}
    /\ copies = {}
    /\ listed = <<>>
    /\ revFailed = {}
    /\ ret = "none"
    /\ trace = <<>>
    /\ run = 1
    /\ first = NoRun

Init == Start(MaxRoots)

InitTwice == Start(MaxRootsTwice)

\* An environment failure of the given kind at this step.
Fault(kind, what) ==
    /\ faults < MaxFaults
    /\ faults' = faults + 1
    /\ trace' = Append(trace, [at |-> calls, kind |-> kind, what |-> what])

NoFault == UNCHANGED <<faults, trace>>

\* The descriptors of a batch that carry an Error count as failures.
PackageErrors(errs) ==
    /\ faults + Cardinality(errs) <= MaxFaults
    /\ faults' = faults + Cardinality(errs)
    /\ trace' = IF errs = {} THEN trace
                ELSE Append(trace, [at |-> calls, kind |-> "package error", what |-> errs])

Top == stack[Len(stack)]
Cur == Top.ps[Top.i]
Advance == [stack EXCEPT ![Len(stack)].i = @ + 1]
Frame(ps, andDeps) == [ps |-> ps, i |-> 1, andDeps |-> andDeps]

InLoop ==
    /\ phase = "walk"
    /\ stack # <<>>
    /\ Top.i <= Len(Top.ps)

Branch == Classify(Cur, getwd(cwd))
\* The visit of the current descriptor enters the history; deps says whether
\* the visit went on to call vendor(p.Deps, false).
Note(class, deps) == seen' = seen \cup {[d |-> Cur, class |-> class, deps |-> deps]}

(* ---------------------------- main and vendor -------------------------- *)

\* main: vendor(flag.Args(), true), where listPackages fails: log.Fatalf
MainListFatal ==
    /\ phase = "start"
    /\ Fault("list", {})
    /\ phase' = "fatal"
    /\ stderr' = Append(stderr, <<"error encountered listing packages">>)
    /\ calls' = calls + 1
    /\ listed' = Append(listed, names)
    /\ UNCHANGED <<names, stack, cwd, extVendoredDeps, manifest, reported, stdout,
                   dirs, files, logfile, seen, copies, revFailed, ret, oldlog,
                   run, first>>

\* main: vendor(flag.Args(), true), where listPackages answers
MainList ==
    /\ phase = "start"
    /\ \E errs \in SUBSET (1..Len(names)) :
          /\ PackageErrors(errs)
          /\ stack' = <<Frame(listPackages(names, errs), TRUE)>>
    /\ phase' = "walk"
    /\ calls' = calls + 1
    /\ listed' = Append(listed, names)
    /\ UNCHANGED <<names, cwd, extVendoredDeps, manifest, reported, stdout, stderr,
                   dirs, files, logfile, seen, copies, revFailed, ret, oldlog,
                   run, first>>

\* vendor, loop body: p.Error != nil
VisitError ==
    /\ InLoop
    /\ Branch = "error"
    /\ Note("error", FALSE)
    /\ stderr' = Append(stderr, <<"encountered package error", Cur.pkg>>)
    /\ stack' = Advance
    /\ calls' = calls + 1
    /\ NoFault
    /\ UNCHANGED <<names, listed, phase, cwd, extVendoredDeps, manifest, reported, stdout,
                   dirs, files, logfile, copies, revFailed, ret, oldlog, run, first>>

\* vendor, loop body: p.Standard
VisitStandard ==
    /\ InLoop
    /\ Branch = "standard"
    /\ Note("standard", FALSE)
    /\ stack' = Advance
    /\ calls' = calls + 1
    /\ NoFault
    /\ UNCHANGED <<names, listed, phase, cwd, extVendoredDeps, manifest, reported, stdout,
                   stderr, dirs, files, logfile, copies, revFailed, ret, oldlog,
                   run, first>>

\* getwd, called by the first isLocal of the run: os.Getwd fails, log.Fatalf
GetwdFatal ==
    /\ InLoop
    /\ Branch \notin {"error", "standard"}
    /\ cwd = <<>>
    /\ Fault("getwd", {})
    /\ phase' = "fatal"
    /\ stderr' = Append(stderr, <<"error getting current directory">>)
    /\ calls' = calls + 1
    /\ UNCHANGED <<names, listed, stack, cwd, extVendoredDeps, manifest, reported, stdout,
                   dirs, files, logfile, seen, copies, revFailed, ret, oldlog,
                   run, first>>

\* vendor, loop body: isVendored(p)
VisitVendored ==
    /\ InLoop
    /\ Branch \in {"vendored-local", "vendored-ext"}
    /\ Note(Branch, FALSE)
    /\ cwd' = getwd(cwd)
    /\ extVendoredDeps' = IF Branch = "vendored-ext"
                          THEN noteExtVendoredDep(extVendoredDeps, Cur)
                          ELSE extVendoredDeps
    /\ stack' = Advance
    /\ calls' = calls + 1
    /\ NoFault
    /\ UNCHANGED <<names, listed, phase, manifest, reported, stdout, stderr, dirs, files,
                   logfile, copies, revFailed, ret, oldlog, run, first>>

\* Mutant of VisitCopyFail: the `continue` is missing, noteManifest(p) runs.
VisitCopyFail_NoContinue ==
    /\ InLoop
    /\ Branch = "vendorable"
    /\ Note(Branch, FALSE)
    /\ cwd' = getwd(cwd)
    /\ \E f \in CopyFailures(Cur.pkg) :
          LET r == copyPackage(dirs, files, Cur.pkg, f.failAt, f.how)
          IN  /\ Fault("copy", {f})
              /\ dirs' = r.dirs
              /\ files' = r.files
    /\ copies' = copies \cup {[d |-> Cur, ok |-> FALSE]}
    /\ manifest' = noteManifest(manifest, Cur)
    /\ stderr' = Append(stderr, <<"error copying package", Cur.pkg>>)
    /\ stack' = Advance
    /\ calls' = calls + 1
    /\ UNCHANGED <<names, listed, phase, extVendoredDeps, reported, stdout,
                   logfile, revFailed, ret, oldlog, run, first>>

\* Mutant of VisitCopyFail: log.Fatalf for log.Printf.
VisitCopyFail_Fatal ==
    /\ InLoop
    /\ Branch = "vendorable"
    /\ Note(Branch, FALSE)
    /\ cwd' = getwd(cwd)
    /\ \E f \in CopyFailures(Cur.pkg) :
          LET r == copyPackage(dirs, files, Cur.pkg, f.failAt, f.how)
          IN  /\ Fault("copy", {f})
              /\ dirs' = r.dirs
              /\ files' = r.files
    /\ copies' = copies \cup {[d |-> Cur, ok |-> FALSE]}
    /\ stderr' = Append(stderr, <<"error copying package", Cur.pkg>>)
    /\ phase' = "fatal"
    /\ calls' = calls + 1
    /\ UNCHANGED <<names, listed, stack, extVendoredDeps, manifest, reported, stdout,
                   logfile, revFailed, ret, oldlog, run, first>>

\* vendor, loop body: copyPackage(p) fails: log.Printf and continue
VisitCopyFail ==
    /\ InLoop
    /\ Branch = "vendorable"
    /\ Note(Branch, FALSE)
    /\ cwd' = getwd(cwd)
    /\ \E f \in CopyFailures(Cur.pkg) :
          LET r == copyPackage(dirs, files, Cur.pkg, f.failAt, f.how)
          IN  /\ Fault("copy", {f})
              /\ dirs' = r.dirs
              /\ files' = r.files
    /\ copies' = copies \cup {[d |-> Cur, ok |-> FALSE]}
    /\ stderr' = Append(stderr, <<"error copying package", Cur.pkg>>)
    /\ stack' = Advance
    /\ calls' = calls + 1
    /\ UNCHANGED <<names, listed, phase, extVendoredDeps, manifest, reported, stdout,
                   logfile, revFailed, ret, oldlog, run, first>>

\* vendor, loop body from `if !isLocal(p)` to noteManifest(p), for a package
\* that is local (nothing is copied) or whose copy succeeds.
Keep ==
    /\ InLoop
    /\ Branch \in {"local", "vendorable"}
    /\ cwd' = getwd(cwd)
    /\ IF Branch = "vendorable"
       THEN LET ok == CopyOk(Cur.pkg)
                r  == copyPackage(dirs, files, Cur.pkg, ok.failAt, ok.how)
            IN  /\ dirs' = r.dirs
                /\ files' = r.files
                /\ manifest' = noteManifest(manifest, Cur)
                /\ copies' = copies \cup {[d |-> Cur, ok |-> TRUE]}
       ELSE UNCHANGED <<dirs, files, manifest, copies>>

\* vendor, loop body: the package is kept and andDeps is false
VisitLeaf ==
    /\ Keep
    /\ ~Top.andDeps
    /\ Note(Branch, FALSE)
    /\ stack' = Advance
    /\ calls' = calls + 1
    /\ NoFault
    /\ UNCHANGED <<names, listed, phase, extVendoredDeps, reported, stdout, stderr,
                   logfile, revFailed, ret, oldlog, run, first>>

\* Mutant of VisitDeps: the inner call recurses as well, vendor(p.Deps, true),
\* so that a dependency triggers a resolver call of its own.
VisitDeps_PerPackage ==
    /\ Keep
    /\ Note(Branch, TRUE)
    /\ \E errs \in SUBSET (1..Len(Deps(Cur.pkg))) :
          /\ PackageErrors(errs)
          /\ stack' = Append(Advance, Frame(listPackages(Deps(Cur.pkg), errs), TRUE))
    /\ calls' = calls + 1
    /\ listed' = Append(listed, Deps(Cur.pkg))
    /\ UNCHANGED <<names, phase, extVendoredDeps, reported, stdout, stderr,
                   logfile, revFailed, ret, oldlog, run, first>>

\* vendor, loop body: the package is kept and andDeps is true:
\* vendor(p.Deps, false), whose listPackages answers
VisitDeps ==
    /\ Keep
    /\ Top.andDeps
    /\ Note(Branch, TRUE)
    /\ \E errs \in SUBSET (1..Len(Deps(Cur.pkg))) :
          /\ PackageErrors(errs)
          /\ stack' = Append(Advance, Frame(listPackages(Deps(Cur.pkg), errs), FALSE))
    /\ calls' = calls + 1
    /\ listed' = Append(listed, Deps(Cur.pkg))
    /\ UNCHANGED <<names, phase, extVendoredDeps, reported, stdout, stderr,
                   logfile, revFailed, ret, oldlog, run, first>>

\* vendor, loop body: the package is kept and andDeps is true:
\* vendor(p.Deps, false), whose listPackages fails: log.Fatalf
VisitDepsListFatal ==
    /\ Keep
    /\ Top.andDeps
    /\ Note(Branch, FALSE)
    /\ Fault("list", {})
    /\ phase' = "fatal"
    /\ stderr' = Append(stderr, <<"error encountered listing packages">>)
    /\ calls' = calls + 1
    /\ listed' = Append(listed, Deps(Cur.pkg))
    /\ UNCHANGED <<names, stack, extVendoredDeps, reported, stdout, logfile,
                   revFailed, ret, oldlog, run, first>>

\* vendor: the loop is over and the call returns
Return ==
    /\ phase = "walk"
    /\ stack # <<>>
    /\ Top.i > Len(Top.ps)
    /\ stack' = SubSeq(stack, 1, Len(stack) - 1)
    /\ phase' = IF Len(stack) = 1 THEN "report" ELSE "walk"
    /\ calls' = calls + 1
    /\ NoFault
    /\ UNCHANGED <<names, listed, cwd, extVendoredDeps, manifest, reported, stdout, stderr,
                   dirs, files, logfile, seen, copies, revFailed, ret, oldlog,
                   run, first>>

(* ------------------------------ the skip report ------------------------ *)

\* reportExtVendoredDep, one key of the map (in any order): os.Stat says the
\* path does not exist, fmt.Println(k)
ReportPrint ==
    /\ phase = "report"
    /\ \E k \in extVendoredDeps \ reported :
          /\ k \notin dirs
          /\ stdout' = Append(stdout, k)
          /\ reported' = reported \cup {k}
    /\ calls' = calls + 1
    /\ NoFault
    /\ UNCHANGED <<names, listed, phase, stack, cwd, extVendoredDeps, manifest, stderr,
                   dirs, files, logfile, seen, copies, revFailed, ret, oldlog,
                   run, first>>

\* reportExtVendoredDep, one key: os.Stat succeeds, nothing is printed
ReportExists ==
    /\ phase = "report"
    /\ \E k \in extVendoredDeps \ reported :
          /\ k \in dirs
          /\ reported' = reported \cup {k}
    /\ calls' = calls + 1
    /\ NoFault
    /\ UNCHANGED <<names, listed, phase, stack, cwd, extVendoredDeps, manifest, stdout,
                   stderr, dirs, files, logfile, seen, copies, revFailed, ret,
                   oldlog, run, first>>

\* reportExtVendoredDep, one key: os.Stat fails otherwise: log.Fatal
ReportStatFatal ==
    /\ phase = "report"
    /\ \E k \in extVendoredDeps \ reported :
          /\ Fault("stat", {k})
          /\ stderr' = Append(stderr, <<"stat", k>>)
    /\ phase' = "fatal"
    /\ calls' = calls + 1
    /\ UNCHANGED <<names, listed, stack, cwd, extVendoredDeps, manifest, reported, stdout,
                   dirs, files, logfile, seen, copies, revFailed, ret, oldlog,
                   run, first>>

\* reportExtVendoredDep: the loop is over
ReportReturn ==
    /\ phase = "report"
    /\ extVendoredDeps \ reported = {}
    /\ phase' = "finalize"
    /\ calls' = calls + 1
    /\ NoFault
    /\ UNCHANGED <<names, listed, stack, cwd, extVendoredDeps, manifest, reported, stdout,
                   stderr, dirs, files, logfile, seen, copies, revFailed, ret,
                   oldlog, run, first>>

(* ------------------------------ the manifest --------------------------- *)

\* The revision lookups that fail in one reportManifest, within the budget
\* once `spent` other failures are counted.
RevisionFailures(failed, spent) ==
    /\ failed \subseteq DOMAIN manifest
    /\ faults + Cardinality(failed) + spent <= MaxFaults
    /\ faults' = faults + Cardinality(failed) + spent
    /\ revFailed' = failed

\* reportManifest(*logfile): the file opens and the writer flushes
ReportManifest ==
    /\ phase = "finalize"
    /\ \E failed \in SUBSET (DOMAIN manifest) :
          LET imps == SortStrings(DOMAIN manifest)
          IN  /\ RevisionFailures(failed, 0)
              /\ trace' = IF failed = {} THEN trace
                          ELSE Append(trace, [at |-> calls, kind |-> "revision",
                                              what |-> failed])
              /\ logfile' = logfile \o ManifestLines(imps, failed)
              /\ stderr' = stderr \o ManifestErrors(imps, failed)
    /\ ret' = "nil"
    /\ phase' = "done"
    /\ calls' = calls + 1
    /\ UNCHANGED <<names, listed, stack, cwd, extVendoredDeps, manifest, reported, stdout,
                   dirs, files, seen, copies, oldlog, run, first>>

\* reportManifest(*logfile): os.OpenFile fails; main prints the error
ReportManifestOpenErr ==
    /\ phase = "finalize"
    /\ Fault("open", {})
    /\ stderr' = Append(stderr, <<"open">>)
    /\ ret' = "err"
    /\ phase' = "done"
    /\ calls' = calls + 1
    /\ UNCHANGED <<names, listed, stack, cwd, extVendoredDeps, manifest, reported, stdout,
                   dirs, files, logfile, seen, copies, revFailed, oldlog, run,
                   first>>

\* reportManifest(*logfile): a write of the buffered lines fails, after the
\* first n of them reached the file; main prints the error
ReportManifestFlushErr ==
    /\ phase = "finalize"
    /\ \E failed \in SUBSET (DOMAIN manifest) :
          LET imps  == SortStrings(DOMAIN manifest)
              lines == ManifestLines(imps, failed)
          IN  /\ RevisionFailures(failed, 1)
              /\ \E n \in 0..(Len(lines) - 1) :
                    /\ trace' = Append(trace, [at |-> calls, kind |-> "flush",
                                               what |-> {<<n, failed>>}])
                    /\ logfile' = logfile \o SubSeq(lines, 1, n)
              /\ stderr' = Append(stderr \o ManifestErrors(imps, failed), <<"flush">>)
    /\ ret' = "err"
    /\ phase' = "done"
    /\ calls' = calls + 1
    /\ UNCHANGED <<names, listed, stack, cwd, extVendoredDeps, manifest, reported, stdout,
                   dirs, files, seen, copies, oldlog, run, first>>

(* ------------------------------ a second run --------------------------- *)

\* The lines this run appended to the log.
Block == SubSeq(logfile, Len(oldlog) + 1, Len(logfile))

\* The tool is started again with the same arguments: a new process, whose
\* globals are fresh; vendor/ and the log are as the first run left them.
Rerun ==
    /\ phase = "done"
    /\ run = 1
    /\ run' = 2
    /\ first' = [dirs |-> dirs, files |-> files, block |-> Block, trace |-> trace,
                 ret |-> ret]
    /\ oldlog' = logfile
    /\ phase' = "start"
    /\ stack' = <<>>
    /\ cwd' = <<>>
    /\ extVendoredDeps' = {}
    /\ manifest' = <<>>
    /\ reported' = {}
    /\ stdout' = <<>>
    /\ stderr' = <<>>
    /\ calls' = 0
    /\ seen' = {}
    /\ copies' = {}
    /\ listed' = <<>>
    /\ revFailed' = {}
    /\ ret' = "none"
    /\ trace' = <<>>
    /\ UNCHANGED <<names, dirs, files, logfile, faults>>

(* ------------------------------ specifications ------------------------- *)

Next ==
    \/ MainListFatal
    \/ MainList
    \/ VisitError
    \/ VisitStandard
    \/ GetwdFatal
    \/ VisitVendored
    \/ VisitCopyFail
    \/ VisitLeaf
    \/ VisitDeps
    \/ VisitDepsListFatal
    \/ Return
    \/ ReportPrint
    \/ ReportExists
    \/ ReportStatFatal
    \/ ReportReturn
    \/ ReportManifest
    \/ ReportManifestOpenErr
    \/ ReportManifestFlushErr

\* One run of the tool.
Spec == Init /\ [][Next]_vars

NextTwice == Next \/ Rerun

\* The tool run once and then once more.
SpecTwice == InitTwice /\ [][NextTwice]_vars

(* ------------------------------ properties ----------------------------- *)

\* The import paths of the descriptors the loop of vendor() has visited.
Visited == {r.d.pkg : r \in seen}

\* vendor(flag.Args(), true) has returned.
WalkOver == phase \in {"report", "finalize", "done"}

Roots == {names[i] : i \in 1..Len(names)}

\* The transitive imports of a package.
Reach(id) == Closure(ImportsOf(id), {})

\* R imports A, A imports B, B imports C, and R imports neither B nor C.
Chain(R, A, B, C) ==
    /\ A \in ImportsOf(R)
    /\ B \in ImportsOf(A)
    /\ C \in ImportsOf(B)
    /\ B \notin ImportsOf(R)
    /\ C \notin ImportsOf(R)

\* The directory of id is the working directory or lies beneath it, whole
\* path components compared.
UnderBoundary(id) ==
    LET cd == SplitSep(DirOf(id), "/")
        cw == SplitSep(Cwd, "/")
    IN  /\ Len(cw) <= Len(cd)
        /\ SubSeq(cd, 1, Len(cw)) = cw

\* Some path component of the import path, at any position, is "vendor".
HasVendorSegment(id) ==
    LET c == SplitSep(PathOf(id), "/")
    IN  \E i \in 1..Len(c) : c[i] = S_vendor

\* Some path component that is neither the first nor the last is "vendor".
HasInnerVendorSegment(id) ==
    LET c == SplitSep(PathOf(id), "/")
    IN  \E i \in 2..(Len(c) - 1) : c[i] = S_vendor

\* How often a line occurs in a sequence of lines.
Count(seq, x) == Cardinality({i \in 1..Len(seq) : seq[i] = x})

\* Every file copyPackage copies for id is in the destination tree, with the
\* content of its source.
FilesPresent(id) ==
    \A j \in 1..Len(flatten(FilesOf(id))) :
       LET key == <<id, flatten(FilesOf(id))[j]>>
       IN  /\ key \in DOMAIN files
           /\ files[key] = SrcData(id, flatten(FilesOf(id))[j])

\* C1 as claimed: in a walk from the single root R, with R -> A -> B -> C and
\* neither B nor C imported by R, once R, A and B have been visited C is
\* not visited, not copied and not recorded in the manifest.
C1_GrandchildNotVisited ==
    \A R \in Ids, A \in Ids, B \in Ids, C \in Ids :
       (/\ names = <<R>>
        /\ Chain(R, A, B, C)
        /\ WalkOver
        /\ {R, A, B} \subseteq Visited)
           => /\ C \notin Visited
              /\ C \notin DOMAIN manifest
              /\ \A c \in copies : c.d.pkg # C

\* C1 as amended: the walk never nests deeper than a root call and one call
\* for the Deps of a root, the inner call never expands further; and when the
\* walk is over, every package a root's visit went on to expand has ALL its
\* transitive imports visited (p.Deps is the transitive closure), so with
\* R -> A -> B -> C the package C is visited as well; nothing is visited that
\* is neither a root nor a transitive import of a root.
C1_DepsClosureVisited ==
    /\ Len(stack) <= 2
    /\ (Len(stack) >= 1 => stack[1].andDeps)
    /\ (Len(stack) = 2 => ~stack[2].andDeps)
    /\ Visited \subseteq Roots \cup UNION {Reach(R) : R \in Roots}
    /\ WalkOver =>
          \A r \in seen : r.deps => Reach(r.d.pkg) \subseteq Visited

\* C1 witness: a walk from the single root p is over, p was expanded, and c
\* (p -> a -> b -> c) has been visited and recorded.
C1_Witness ==
    /\ names = <<"p">>
    /\ Chain("p", "a", "b", "c")
    /\ WalkOver
    /\ \E r \in seen : r.d.pkg = "p" /\ r.deps
    /\ "c" \in Visited
    /\ "c" \in DOMAIN manifest

\* A package the classifier of the specification calls Vendorable: not
\* standard, no vendor component, not under the working directory.
SpecVendorable(id) ==
    /\ ~StandardOf(id)
    /\ ~HasVendorSegment(id)
    /\ ~UnderBoundary(id)

\* C2 as claimed: a run is over in which nothing was reported as an error;
\* for every root R under the working directory that imports a Vendorable A,
\* which imports a Vendorable B that R does not import, A and B are in the
\* manifest, their files are in the destination tree, and R was not copied.
C2_LocalRootVendorsBoth ==
    \A R \in Roots, A \in Ids, B \in Ids :
       (/\ phase = "done"
        /\ stderr = <<>>
        /\ UnderBoundary(R)
        /\ ~StandardOf(R)
        /\ ~HasVendorSegment(R)
        /\ A \in ImportsOf(R)
        /\ SpecVendorable(A)
        /\ B \in ImportsOf(A)
        /\ SpecVendorable(B)
        /\ B \notin ImportsOf(R))
           => /\ {A, B} \subseteq DOMAIN manifest
              /\ FilesPresent(A)
              /\ FilesPresent(B)
              /\ \A c \in copies : c.d.pkg # R

\* C3 as claimed: every descriptor visited without resolution error that is
\* not standard, lies under a vendor path (a "vendor" component inside its
\* import path) and is not under the working directory is in the skip set
\* once the walk is over, and once the report is over it has been printed
\* exactly once if vendor/<import path> does not exist and not at all if it
\* does.
C3_SkipSetAndReport ==
    \A r \in seen :
       (/\ r.class # "error"
        /\ ~StandardOf(r.d.pkg)
        /\ HasInnerVendorSegment(r.d.pkg)
        /\ ~UnderBoundary(r.d.pkg))
           => /\ WalkOver => r.d.pkg \in extVendoredDeps
              /\ phase \in {"finalize", "done"} =>
                    Count(stdout, r.d.pkg) = (IF r.d.pkg \in dirs THEN 0 ELSE 1)

\* A step in which copyPackage fails.
CopyFailStep ==
    /\ Len(stderr') = Len(stderr) + 1
    /\ stderr'[Len(stderr')][1] = "error copying package"

\* The import paths for which some copyPackage failed.
CopyFailed == {c.d.pkg : c \in {x \in copies : ~x.ok}}

\* C4 as claimed: when the run is over (here: a run whose root names are all
\* different), the manifest holds no entry for a package whose copy failed.
C4_NoEntryForFailedPackage ==
    (/\ phase = "done"
     /\ Cardinality(Roots) = Len(names))
        => \A id \in CopyFailed : id \notin DOMAIN manifest

\* C4 as amended: a failing copy is reported and changes nothing in the
\* manifest, and the walk goes on with the next descriptor of the same batch;
\* every manifest entry comes from a visit whose copy succeeded (so a package
\* whose copy failed has an entry only if another visit of it succeeded).
C4_FailedCopyRecordsNothing ==
    /\ [][CopyFailStep =>
            /\ manifest' = manifest
            /\ phase' = "walk"
            /\ stack' = Advance]_vars
    /\ [](\A k \in DOMAIN manifest : [d |-> manifest[k], ok |-> TRUE] \in copies)

\* C4 witness: in a walk from the root p the copy of a, the first of p's
\* Deps, failed; a has no entry and b and c, later in the batch, were copied
\* and recorded.
C4_Witness ==
    /\ names = <<"p">>
    /\ phase = "done"
    /\ "a" \in CopyFailed
    /\ "a" \notin DOMAIN manifest
    /\ {"b", "c"} \subseteq DOMAIN manifest
    /\ FilesPresent("b")

\* The last line on stderr is one that log.Fatal or log.Fatalf printed.
LastIs(kind) == stderr # <<>> /\ stderr[Len(stderr)][1] = kind

\* C5 as claimed: the run ends fatally only when the resolution of the root
\* names fails.
C5_FatalOnlyAtRootResolution ==
    phase = "fatal" =>
       /\ LastIs("error encountered listing packages")
       /\ stack = <<>>
       /\ seen = {}

\* C5 as amended: the run ends fatally only when a resolver call fails (for the
\* root names or for a root's Deps), when os.Getwd fails, or when the stat of
\* a skip-set path fails with an error other than not-exist; a package error,
\* a copy error, a revision error and a log-file error do not end it: the
\* step that reports one leaves the run going, and a run that is over has
\* passed every key of the skip set and has had reportManifest return.
C5_FatalOnlyOnInfrastructure ==
    /\ [](phase = "fatal" =>
             \/ LastIs("error encountered listing packages")
             \/ LastIs("error getting current directory")
             \/ LastIs("stat"))
    /\ [][(\E i \in (Len(stderr) + 1)..Len(stderr') :
              stderr'[i][1] \in {"encountered package error", "error copying package",
                                "commit hash", "open", "flush"})
              => phase' \in {"walk", "done"}]_vars
    /\ [](phase = "done" => (reported = extVendoredDeps /\ ret # "none"))

\* C5 witness: a run is over, not fatal, whose stderr holds a copy error, a
\* package error or a revision error.
C5_Witness ==
    /\ phase = "done"
    /\ ret = "nil"
    /\ \E i \in 1..Len(stderr) :
          stderr[i][1] \in {"error copying package", "encountered package error",
                           "commit hash"}

Revision(id) == HeadOf(id) \o (IF CleanOf(id) THEN <<>> ELSE <<" (dirty)">>)

\* C7: the log is never truncated: what the run found in it stays its prefix;
\* and when reportManifest returns nil, the lines it appended are exactly one
\* per manifest key, in ascending import-path order, each with the revision
\* of its package, or with "unknown" when its lookup failed, and every failed
\* lookup is reported on stderr.
C7_FinalizeAppendsSorted ==
    /\ HasPrefix(logfile, oldlog)
    /\ (phase = "done" /\ ret = "nil") =>
          /\ Len(Block) = Cardinality(DOMAIN manifest)
          /\ {Block[i][3] : i \in 1..Len(Block)} = DOMAIN manifest
          /\ \A i \in 1..Len(Block) : \A j \in 1..Len(Block) :
                i < j => StrLess(PathOf(Block[i][3]), PathOf(Block[j][3]))
          /\ \A i \in 1..Len(Block) :
                Block[i] = <<(IF Block[i][3] \in revFailed THEN <<"unknown">>
                              ELSE Revision(Block[i][3])),
                             "\t", Block[i][3], "\n">>
          /\ \A k \in revFailed : Count(stderr, <<"commit hash", k>>) = 1

\* C7 witness: reportManifest returned nil on a log that held a line, for a
\* manifest of at least two entries, one of them with a failed lookup.
C7_Witness ==
    /\ phase = "done"
    /\ ret = "nil"
    /\ oldlog # <<>>
    /\ Cardinality(DOMAIN manifest) >= 2
    /\ revFailed # {}

\* The environment answered the second run as it answered the first.
SameAnswers ==
    /\ Len(trace) = Len(first.trace)
    /\ \A i \in 1..Len(trace) :
          /\ trace[i].at = first.trace[i].at
          /\ trace[i].kind = first.trace[i].kind
          /\ trace[i].what = first.trace[i].what

\* C8: when a second run with the same root names is over and the environment
\* answered it as it answered the first, the destination tree is the one the
\* first run left and the lines appended to the log are the lines the first
\* run appended, after them.
C8_SecondRunIdentical ==
    (run = 2 /\ phase = "done" /\ SameAnswers) =>
       /\ dirs = first.dirs
       /\ files = first.files
       /\ ret = first.ret
       /\ Block = first.block
       /\ Len(oldlog) >= Len(first.block)
       /\ SubSeq(oldlog, Len(oldlog) - Len(first.block) + 1, Len(oldlog)) = first.block
       /\ logfile = oldlog \o first.block

\* C8 witness: a second run is over that copied and recorded packages, over
\* a tree that held a stale file before the first run.
C8_Witness ==
    /\ run = 2
    /\ phase = "done"
    /\ SameAnswers
    /\ ret = "nil"
    /\ first.block # <<>>
    /\ Cardinality(DOMAIN manifest) >= 2
    /\ <<"a", "gone.go">> \in DOMAIN files
    /\ FilesPresent("a")

\* C9 as claimed: a visited descriptor (without error, not standard) is
\* treated as local exactly when its directory is the working directory or
\* lies beneath it by whole path components; one that only shares a string
\* prefix with it and has no vendor component is copied.
C9_LocalIsComponentAware ==
    \A r \in seen :
       r.class \notin {"error", "standard"} =>
          /\ (r.class \in {"local", "vendored-local"}) <=> UnderBoundary(r.d.pkg)
          /\ (~UnderBoundary(r.d.pkg) /\ ~HasInnerVendorSegment(r.d.pkg)) =>
                r.class = "vendorable"

\* C10 as claimed: a visited descriptor (without error, not standard) is
\* treated as vendored exactly when some component of its import path, at
\* any position, is "vendor".
C10_AnySegment ==
    \A r \in seen :
       r.class \notin {"error", "standard"} =>
          ((r.class \in {"vendored-local", "vendored-ext"}) <=> HasVendorSegment(r.d.pkg))

\* C10 as amended: a visited descriptor (without error, not standard) is
\* treated as vendored exactly when some component of its import path that
\* is neither the first nor the last is "vendor" (the path contains
\* "/vendor/"); a path with "vendor" only inside a component is not.
C10_InnerSegment ==
    \A r \in seen :
       r.class \notin {"error", "standard"} =>
          ((r.class \in {"vendored-local", "vendored-ext"}) <=> HasInnerVendorSegment(r.d.pkg))

\* C10 witness: a walk has visited a/vendor/c and treated it as vendored, and
\* a/vendortools, vendor/c and a/vendor and treated them as not vendored.
C10_Witness ==
    /\ [d |-> [pkg |-> "a/vendor/c", Error |-> FALSE], class |-> "vendored-ext",
        deps |-> FALSE] \in seen
    /\ \E r \in seen : r.d.pkg = "a/vendortools" /\ r.class = "vendorable"
    /\ \E r \in seen : r.d.pkg = "vendor/c" /\ r.class = "vendorable"
    /\ \E r \in seen : r.d.pkg = "a/vendor" /\ r.class = "vendorable"

\* The dependency lists of the root names, one after the other.
CombinedDeps ==
    UNION {{Deps(names[j])[k] : k \in 1..Len(Deps(names[j]))} : j \in 1..Len(names)}

\* A step of the root activation of vendor() that keeps its descriptor: the
\* package is local or is copied, and no copy or getwd error is logged.
KeptRootStep ==
    /\ InLoop
    /\ Len(stack) = 1
    /\ Branch \in {"local", "vendorable"}
    /\ calls' # calls
    /\ \/ stderr' = stderr
       \/ stderr'[Len(stderr')] = <<"error encountered listing packages">>

\* C11 as claimed: a run makes at most two resolver calls, one for the root
\* names and at most one more, and once the walk is over that second call
\* has carried the dependency lists of all the roots that were kept. (Stated
\* for runs whose root names are pairwise distinct.)
C11_AtMostTwoCalls ==
    Cardinality(Roots) = Len(names) =>
    /\ Len(listed) <= 2
    /\ (WalkOver /\ Len(listed) = 2) =>
          \A r \in seen :
             (r.d.pkg \in Roots /\ r.deps) =>
                \A k \in 1..Len(Deps(r.d.pkg)) :
                   \E m \in 1..Len(listed[2]) : listed[2][m] = Deps(r.d.pkg)[k]

\* C11 as amended: every activation of vendor() makes exactly one resolver
\* call, for its whole batch of names. The first call carries the root
\* names; every further call is made by the root activation, for one root
\* descriptor that was kept (local, or copied without error), and carries
\* the whole dependency list of that one root; every kept root makes such a
\* call, and no descriptor of a dependency batch makes any. So a run makes at
\* most one call more than it has root names, not at most two.
C11_OneCallPerKeptRoot ==
    /\ [](Len(listed) <= 1 + Len(names))
    /\ [](Len(stack) <= 2)
    /\ [](phase # "start" => (Len(listed) >= 1 /\ listed[1] = names))
    /\ [](\A i \in 2..Len(listed) : \E j \in 1..Len(names) : listed[i] = Deps(names[j]))
    /\ [][listed' # listed =>
             \/ phase = "start" /\ listed' = <<names>>
             \/ KeptRootStep /\ listed' = Append(listed, Deps(Cur.pkg))]_vars
    /\ [][KeptRootStep => Len(listed') = Len(listed) + 1]_vars

\* C11 witness: a finished run with two distinct root names has made three
\* resolver calls, the second and third with one root's dependency list each,
\* and neither of them with the combined list of both roots.
C11_Witness ==
    /\ phase = "done"
    /\ Len(names) = 2
    /\ names[1] # names[2]
    /\ Len(listed) = 3
    /\ listed[2] = Deps(names[1])
    /\ listed[3] = Deps(names[2])
    /\ listed[2] # listed[3]
    /\ \A i \in 2..3 : {listed[i][m] : m \in 1..Len(listed[i])} # CombinedDeps

====
